---- MODULE Spec2Model ----
(***************************************************************************)
(* Finite MDP environments of utils/mdp.py: the deterministic grid world   *)
(* (GeneralDeterministicGridWorldMDP), the cliff-walking grid              *)
(* (CliffWalkingMDP) and the two-state toy model (OneStateRandomMDP).      *)
(*                                                                         *)
(* Tensors are functions td[s][a][n] and r[s][a][n].  Probabilities are    *)
(* kept in tenths (Scale = probability 1), which is exact for every        *)
(* literal the source writes (0, 0.1, 0.9, 1).                             *)
(***************************************************************************)
EXTENDS Integers, FiniteSets, Sequences, TLC

VARIABLES
    variant,        \* which class was constructed: "grid", "cliff", "toy"
    env_spec,       \* EnvSpec(num_states, num_actions, gamma)
    width,          \* self._width (0 for the toy model, which has none)
    num_states,     \* self._num_states
    start_state,    \* self._start_state   (cliff-walking only, else None)
    goal_state,     \* self._goal_state    (cliff-walking only, else None)
    cliff_states,   \* self._cliff_states  (cliff-walking only, else {})
    final_state,    \* self._final_state   (grid and toy, else None)
    td,             \* self._td
    r,              \* self._r
    state,          \* self._state, the episode cursor
    ret             \* what the last call did: its result or the exception raised

vars == <<variant, env_spec, width, num_states, start_state, goal_state,
          cliff_states, final_state, td, r, state, ret>>

model == <<variant, env_spec, width, num_states, start_state, goal_state,
           cliff_states, final_state, td, r>>

----------------------------------------------------------------------------
(* Bounds of the model *)

GridMaxWidth == 4
GridMaxHeight == 4
CliffMaxCells == 6
MaxCliffs == 1

----------------------------------------------------------------------------
(* Program constants *)

NUM_ACTIONS == 4
LEFT_ACTION == 0
UP_ACTION == 1
RIGHT_ACTION == 2
DOWN_ACTION == 3

\* Python's None, the cursor before the first reset()
None == -1

\* probability 1.0, in tenths
Scale == 10

\* the action indices a caller may pass to step(): every valid index and
\* one invalid index on each side of the range
ActionInputs == (-1)..NUM_ACTIONS

----------------------------------------------------------------------------
(* numpy helpers *)

\* np.zeros((n, na, n))
Zeros(n, na) == [s \in 0..(n-1) |-> [a \in 0..(na-1) |-> [n2 \in 0..(n-1) |-> 0]]]

\* t[s, a, n2] = v
Put(t, s, a, n2, v) == [t EXCEPT ![s][a][n2] = v]

\* t[s, :, n2] = v
PutRow(t, s, n2, v) ==
    [t EXCEPT ![s] = [a \in DOMAIN t[s] |-> [t[s][a] EXCEPT ![n2] = v]]]

\* t[S, :, n2] = v   for a list S of state indices
PutRows(t, S, n2, v) ==
    [s \in DOMAIN t |->
        IF s \in S THEN [a \in DOMAIN t[s] |-> [t[s][a] EXCEPT ![n2] = v]]
                   ELSE t[s]]

\* t[s, :, :] = v
FillRow(t, s, v) ==
    [t EXCEPT ![s] = [a \in DOMAIN t[s] |-> [n2 \in DOMAIN t[s][a] |-> v]]]

\* t[S, :, :] = v
FillRows(t, S, v) ==
    [s \in DOMAIN t |->
        IF s \in S THEN [a \in DOMAIN t[s] |-> [n2 \in DOMAIN t[s][a] |-> v]]
                   ELSE t[s]]

\* t[:, :, :] = v
FillAll(t, v) == [s \in DOMAIN t |-> [a \in DOMAIN t[s] |-> [n2 \in DOMAIN t[s][a] |-> v]]]

RECURSIVE SumUpTo(_, _)
SumUpTo(p, k) == IF k < 0 THEN 0 ELSE p[k] + SumUpTo(p, k - 1)

\* sum of a probability vector p over 0..n-1
RowSum(p) == SumUpTo(p, Cardinality(DOMAIN p) - 1)

\* np.random.choice(n, p=p) raises ValueError unless p sums to 1
ChoiceFails(p) == RowSum(p) # Scale

\* np.random.choice(n, p=p): the indices it can return
ChoiceSet(p) == {n \in DOMAIN p : p[n] > 0}

----------------------------------------------------------------------------
(* GeneralDeterministicGridWorldMDP *)

\* GridLeft with "if" for the "elif" of the left-column test
GridLeft_if(t, s, w, n, f) ==
    LET t1 == IF s = 1 THEN Put(t, s, LEFT_ACTION, f, Scale) ELSE t
    IN  IF s % w = 0 THEN Put(t1, s, LEFT_ACTION, s, Scale)
        ELSE Put(t1, s, LEFT_ACTION, s - 1, Scale)

\* the body of the loop of _build_trans_mat for state s
GridLeft(t, s, w, n, f) ==
    IF s = 1 THEN Put(t, s, LEFT_ACTION, f, Scale)
    ELSE IF s % w = 0 THEN Put(t, s, LEFT_ACTION, s, Scale)
    ELSE Put(t, s, LEFT_ACTION, s - 1, Scale)

\* GridUp that tests for the top row first, with <= for <
GridUp_toprow(t, s, w, n, f) ==
    IF s <= w THEN Put(t, s, UP_ACTION, s, Scale)
    ELSE Put(t, s, UP_ACTION, s - w, Scale)

GridUp(t, s, w, n, f) ==
    IF s = w THEN Put(t, s, UP_ACTION, f, Scale)
    ELSE IF s < w THEN Put(t, s, UP_ACTION, s, Scale)
    ELSE Put(t, s, UP_ACTION, s - w, Scale)

GridRight(t, s, w, n, f) ==
    IF (s + 1) = n THEN Put(t, s, RIGHT_ACTION, f, Scale)
    ELSE IF (s + 1) % w = 0 THEN Put(t, s, RIGHT_ACTION, s, Scale)
    ELSE Put(t, s, RIGHT_ACTION, s + 1, Scale)

GridDown(t, s, w, n, f) ==
    IF (s + w) = n THEN Put(t, s, DOWN_ACTION, f, Scale)
    ELSE IF (n - s) < w THEN Put(t, s, DOWN_ACTION, s, Scale)
    ELSE Put(t, s, DOWN_ACTION, s + w, Scale)

GridBody(t, s, w, n, f) ==
    GridDown(GridRight(GridUp(GridLeft(t, s, w, n, f), s, w, n, f), s, w, n, f), s, w, n, f)

\* for s in range(1, n): <body>.  Iteration s assigns to trans_mat[s, ...]
\* only, so row s of the result is row s after the body ran for s.
GridLoop(t, w, n, f) ==
    [s \in DOMAIN t |->
        IF s \in 1..(n-1) THEN GridBody(t, s, w, n, f)[s] ELSE t[s]]

\* _build_trans_mat(self) with self._width = w, self._num_states = n,
\* self._final_state = f
Grid_build_trans_mat(w, n, f) ==
    GridLoop(PutRow(Zeros(n, NUM_ACTIONS), f, f, Scale), w, n, f)

\* Grid_build_r_mat with reward 0 for the transitions into the final state
Grid_build_r_mat_into(n, f) ==
    [s \in 0..(n-1) |-> [a \in 0..(NUM_ACTIONS-1) |->
        [n2 \in 0..(n-1) |-> IF s = f \/ n2 = f THEN 0 ELSE -1]]]

\* _build_r_mat(self)
Grid_build_r_mat(n, f) ==
    FillRow(FillAll(Zeros(n, NUM_ACTIONS), -1), f, 0)

\* GeneralGridWorldMDP.__init__(width, height): the engine it returns
GridInit(w, h) ==
    LET n == w * h - 1 IN
    /\ n > 0
    /\ variant = "grid"
    /\ env_spec = [num_states |-> n, num_actions |-> NUM_ACTIONS, gamma |-> 1]
    /\ width = w
    /\ num_states = n
    /\ start_state = None
    /\ goal_state = None
    /\ cliff_states = {}
    /\ final_state = 0
    /\ td = Grid_build_trans_mat(w, n, 0)
    /\ r = Grid_build_r_mat(n, 0)
    /\ state = None

----------------------------------------------------------------------------
(* CliffWalkingMDP *)

CliffLeft(t, s, w) ==
    IF s % w = 0 THEN Put(t, s, LEFT_ACTION, s, Scale)
    ELSE Put(t, s, LEFT_ACTION, s - 1, Scale)

CliffUp(t, s, w) ==
    IF s < w THEN Put(t, s, UP_ACTION, s, Scale)
    ELSE Put(t, s, UP_ACTION, s - w, Scale)

\* CliffRight with "if" for the "elif" of the right-column test
CliffRight_if(t, s, w, start) ==
    LET t1 == IF s = start THEN Put(t, s, RIGHT_ACTION, start, Scale) ELSE t
    IN  IF (s + 1) % w = 0 THEN Put(t1, s, RIGHT_ACTION, s, Scale)
        ELSE Put(t1, s, RIGHT_ACTION, s + 1, Scale)

CliffRight(t, s, w, start) ==
    IF s = start THEN Put(t, s, RIGHT_ACTION, start, Scale)
    ELSE IF (s + 1) % w = 0 THEN Put(t, s, RIGHT_ACTION, s, Scale)
    ELSE Put(t, s, RIGHT_ACTION, s + 1, Scale)

CliffDown(t, s, w, n, start, cliffs) ==
    IF s \in cliffs THEN Put(t, s, RIGHT_ACTION, start, Scale)
    ELSE IF (n - s) <= w THEN Put(t, s, DOWN_ACTION, s, Scale)
    ELSE Put(t, s, DOWN_ACTION, s + w, Scale)

\* the body of the loop of _build_trans_mat for state s, after the break test
CliffBody(t, s, w, n, start, cliffs) ==
    CliffDown(CliffRight(CliffUp(CliffLeft(t, s, w), s, w), s, w, start),
              s, w, n, start, cliffs)

\* for s in range(0, n): if s in self._terminal_states: break
\* the states whose iteration runs: those before the first terminal state
CliffVisited(n, terminal_states) ==
    {s \in 0..(n-1) : \A k \in 0..s : k \notin terminal_states}

\* the loop.  Iteration s assigns to trans_mat[s, ...] only, so row s of the
\* result is row s after the body ran for s, if the loop got that far.
CliffLoop(t, w, n, start, cliffs, terminal_states) ==
    [s \in DOMAIN t |->
        IF s \in CliffVisited(n, terminal_states)
        THEN CliffBody(t, s, w, n, start, cliffs)[s]
        ELSE t[s]]

\* CliffAbsorb with the cliff rows wired for the RIGHT action only
CliffAbsorb_rightonly(t, start, goal, cliffs) ==
    [s \in DOMAIN t |->
        IF s \in cliffs THEN [t[s] EXCEPT ![RIGHT_ACTION][start] = Scale]
                        ELSE PutRow(t, goal, goal, Scale)[s]]

\* CliffAbsorb without the goal row
CliffAbsorb_nogoal(t, start, goal, cliffs) ==
    PutRows(t, cliffs, start, Scale)

\* the two assignments before the loop: goal row, then cliff rows
CliffAbsorb(t, start, goal, cliffs) ==
    PutRows(PutRow(t, goal, goal, Scale), cliffs, start, Scale)

\* _build_trans_mat(self)
Cliff_build_trans_mat(w, n, start, goal, cliffs) ==
    CliffLoop(CliffAbsorb(Zeros(n, NUM_ACTIONS), start, goal, cliffs),
              w, n, start, cliffs, {goal} \cup cliffs)

\* Cliff_build_r_mat without the cliff rows
Cliff_build_r_mat_nocliff(n, goal, cliffs) ==
    FillRow(FillAll(Zeros(n, NUM_ACTIONS), -1), goal, 0)

\* _build_r_mat(self)
Cliff_build_r_mat(n, goal, cliffs) ==
    FillRow(FillRows(FillAll(Zeros(n, NUM_ACTIONS), -1), cliffs, -100), goal, 0)

\* CliffWalkingMDP.__init__(width, height, cliff_states, start_state, goal_state)
CliffInit(w, h, cliffs, start, goal) ==
    LET n == w * h IN
    /\ n > 0
    /\ variant = "cliff"
    /\ env_spec = [num_states |-> n, num_actions |-> NUM_ACTIONS, gamma |-> 1]
    /\ width = w
    /\ num_states = n
    /\ start_state = start
    /\ goal_state = goal
    /\ cliff_states = cliffs
    /\ final_state = None
    /\ td = Cliff_build_trans_mat(w, n, start, goal, cliffs)
    /\ r = Cliff_build_r_mat(n, goal, cliffs)
    /\ state = start

----------------------------------------------------------------------------
(* OneStateRandomMDP *)

\* _build_trans_mat(self)
Toy_build_trans_mat ==
    PutRow(Put(Put(Put(Put(Zeros(2, 2), 0, 0, 0, 9), 0, 0, 1, 1), 0, 1, 0, 0),
               0, 1, 1, Scale),
           1, 1, Scale)

\* Toy_build_r_mat with r_mat[0, :, 1] = 1
Toy_build_r_mat_anyaction == PutRow(Zeros(2, 2), 0, 1, 1)

\* _build_r_mat(self)
Toy_build_r_mat == Put(Zeros(2, 2), 0, 0, 1, 1)

\* OneStateRandomMDP.__init__()
ToyInit ==
    /\ variant = "toy"
    /\ env_spec = [num_states |-> 2, num_actions |-> 2, gamma |-> 1]
    /\ width = 0
    /\ num_states = 2
    /\ start_state = None
    /\ goal_state = None
    /\ cliff_states = {}
    /\ final_state = 1
    /\ td = Toy_build_trans_mat
    /\ r = Toy_build_r_mat
    /\ state = None

----------------------------------------------------------------------------
(* What a call hands back *)

\* a call that returned normally
Returned(o, a, prev, s, rew, d, c) ==
    [op |-> o, action |-> a, exc |-> "none", prev |-> prev, state |-> s,
     reward |-> rew, done |-> d, truncated |-> FALSE, caught |-> c]

\* a call that raised exception e
Raised(o, a, prev, e) ==
    [op |-> o, action |-> a, exc |-> e, prev |-> prev, state |-> None,
     reward |-> 0, done |-> FALSE, truncated |-> FALSE, caught |-> FALSE]

\* action in list(range(self.spec.num_actions))
ValidAction(a) == a \in 0..(env_spec.num_actions - 1)

----------------------------------------------------------------------------
(* GeneralGridWorldMDP.reset / step *)

\* is_terminal(self, state)
Grid_is_terminal(s) == s = final_state

GridReset ==
    /\ variant = "grid"
    /\ IF num_states <= 1
       THEN \* np.random.choice(range(1, 1)): nothing to choose from
            /\ state' = state
            /\ ret' = Raised("reset", None, state, "ValueError")
       ELSE \E s \in 1..(num_states - 1) :
            /\ state' = s
            /\ ret' = Returned("reset", None, state, s, 0, FALSE, FALSE)
    /\ UNCHANGED model

GridStep(action) ==
    /\ variant = "grid"
    /\ IF ~ValidAction(action)
       THEN state' = state /\ ret' = Raised("step", action, state, "InvalidAction")
       ELSE IF state = final_state
       THEN state' = state /\ ret' = Raised("step", action, state, "EpisodeEnded")
       ELSE IF state = None
       THEN \* self._td[None, action] is not a probability vector
            state' = state /\ ret' = Raised("step", action, state, "ValueError")
       ELSE IF ChoiceFails(td[state][action])
       THEN state' = state /\ ret' = Raised("step", action, state, "ValueError")
       ELSE \E n \in ChoiceSet(td[state][action]) :
            /\ state' = n
            /\ ret' = Returned("step", action, state, n, r[state][action][n],
                               Grid_is_terminal(n), FALSE)
    /\ UNCHANGED model

----------------------------------------------------------------------------
(* GeneralDeterministicGridWorldMDPWithModel: the class adds two read-only *)
(* properties to the grid engine and nothing else                          *)

\* the property r returning the transition tensor
Grid_r_property_td == td

\* @property td
Grid_td_property == td

\* @property r
Grid_r_property == r

----------------------------------------------------------------------------
(* CliffWalkingMDP.reset / step *)

\* is_terminal(self, state)
Cliff_is_terminal(s) == s = goal_state

CliffReset ==
    /\ variant = "cliff"
    /\ state' = start_state
    /\ ret' = Returned("reset", None, state, start_state, 0, FALSE, FALSE)
    /\ UNCHANGED model

CliffStep(action) ==
    /\ variant = "cliff"
    /\ IF ~ValidAction(action)
       THEN state' = state /\ ret' = Raised("step", action, state, "InvalidAction")
       ELSE IF state = goal_state
       THEN state' = state /\ ret' = Raised("step", action, state, "EpisodeEnded")
       ELSE IF ChoiceFails(td[state][action])
       THEN \* except: print(self._td[self._state, action]); the cursor stays
            /\ state' = state
            /\ ret' = Returned("step", action, state, state, r[state][action][state],
                               Cliff_is_terminal(state), TRUE)
       ELSE \E n \in ChoiceSet(td[state][action]) :
            /\ state' = n
            /\ ret' = Returned("step", action, state, n, r[state][action][n],
                               Cliff_is_terminal(n), FALSE)
    /\ UNCHANGED model

----------------------------------------------------------------------------
(* OneStateRandomMDP.reset / step *)

ToyReset ==
    /\ variant = "toy"
    /\ state' = 0
    /\ ret' = Returned("reset", None, state, 0, 0, FALSE, FALSE)
    /\ UNCHANGED model

\* ToyStep that clears the reward entry it has just paid out
ToyStep_consuming(action) ==
    /\ variant = "toy"
    /\ IF ~ValidAction(action)
       THEN state' = state /\ r' = r
            /\ ret' = Raised("step", action, state, "InvalidAction")
       ELSE IF state = final_state
       THEN state' = state /\ r' = r
            /\ ret' = Raised("step", action, state, "EpisodeEnded")
       ELSE IF state = None
       THEN state' = state /\ r' = r
            /\ ret' = Raised("step", action, state, "ValueError")
       ELSE \E n \in ChoiceSet(td[state][action]) :
            /\ state' = n
            /\ r' = [r EXCEPT ![state][action][n] = 0]
            /\ ret' = Returned("step", action, state, n, r[state][action][n],
                               n = final_state, FALSE)
    /\ UNCHANGED <<variant, env_spec, width, num_states, start_state, goal_state,
                   cliff_states, final_state, td>>

\* ToyStep without the "Episode has ended!" assertion
ToyStep_noended(action) ==
    /\ variant = "toy"
    /\ IF ~ValidAction(action)
       THEN state' = state /\ ret' = Raised("step", action, state, "InvalidAction")
       ELSE IF state = None
       THEN state' = state /\ ret' = Raised("step", action, state, "ValueError")
       ELSE IF ChoiceFails(td[state][action])
       THEN state' = state /\ ret' = Raised("step", action, state, "ValueError")
       ELSE \E n \in ChoiceSet(td[state][action]) :
            /\ state' = n
            /\ ret' = Returned("step", action, state, n, r[state][action][n],
                               n = final_state, FALSE)
    /\ UNCHANGED model

\* ToyStep with its two assertions in the other order
ToyStep_swapped(action) ==
    /\ variant = "toy"
    /\ IF state = final_state
       THEN state' = state /\ ret' = Raised("step", action, state, "EpisodeEnded")
       ELSE IF ~ValidAction(action)
       THEN state' = state /\ ret' = Raised("step", action, state, "InvalidAction")
       ELSE IF state = None
       THEN state' = state /\ ret' = Raised("step", action, state, "ValueError")
       ELSE IF ChoiceFails(td[state][action])
       THEN state' = state /\ ret' = Raised("step", action, state, "ValueError")
       ELSE \E n \in ChoiceSet(td[state][action]) :
            /\ state' = n
            /\ ret' = Returned("step", action, state, n, r[state][action][n],
                               n = final_state, FALSE)
    /\ UNCHANGED model

ToyStep(action) ==
    /\ variant = "toy"
    /\ IF ~ValidAction(action)
       THEN state' = state /\ ret' = Raised("step", action, state, "InvalidAction")
       ELSE IF state = final_state
       THEN state' = state /\ ret' = Raised("step", action, state, "EpisodeEnded")
       ELSE IF state = None
       THEN state' = state /\ ret' = Raised("step", action, state, "ValueError")
       ELSE IF ChoiceFails(td[state][action])
       THEN state' = state /\ ret' = Raised("step", action, state, "ValueError")
       ELSE \E n \in ChoiceSet(td[state][action]) :
            /\ state' = n
            /\ ret' = Returned("step", action, state, n, r[state][action][n],
                               n = final_state, FALSE)
    /\ UNCHANGED model

----------------------------------------------------------------------------
(* The engines a constructor returns, and the calls made on them *)

NoCall ==
    [op |-> "init", action |-> None, exc |-> "none", prev |-> None, state |-> None,
     reward |-> 0, done |-> FALSE, truncated |-> FALSE, caught |-> FALSE]

\* the lists cliff_states a caller passes, as sets of at most MaxCliffs states
CliffSets(n) == {C \in SUBSET (0..(n-1)) : Cardinality(C) <= MaxCliffs}

Init ==
    /\ ret = NoCall
    /\ \/ \E w \in 1..GridMaxWidth, h \in 1..GridMaxHeight : GridInit(w, h)
       \/ \E w \in 1..CliffMaxCells, h \in 1..CliffMaxCells :
          /\ w * h <= CliffMaxCells
          /\ \E start \in 0..(w*h - 1), goal \in 0..(w*h - 1), cliffs \in CliffSets(w*h) :
             CliffInit(w, h, cliffs, start, goal)
       \/ ToyInit

Next ==
    \/ GridReset
    \/ \E action \in ActionInputs : GridStep(action)
    \/ CliffReset
    \/ \E action \in ActionInputs : CliffStep(action)
    \/ ToyReset
    \/ \E action \in ActionInputs : ToyStep(action)

Spec == Init /\ [][Next]_vars

----------------------------------------------------------------------------
(* Vocabulary of the properties *)

States == 0..(num_states - 1)
Actions == 0..(env_spec.num_actions - 1)

\* the terminal state of each variant
TerminalOf ==
    CASE variant = "grid" -> 0
      [] variant = "cliff" -> goal_state
      [] variant = "toy" -> 1

\* start, goal and cliff states in range and pairwise distinct
DistinctGeometry ==
    /\ start_state \in States
    /\ goal_state \in States
    /\ cliff_states \subseteq States
    /\ start_state # goal_state
    /\ start_state \notin cliff_states
    /\ goal_state \notin cliff_states

\* p puts probability 1 on n and 0 on every other state
OneHot(p, n) == \A k \in DOMAIN p : p[k] = (IF k = n THEN Scale ELSE 0)

\* the last call was a step() that returned normally
Stepped == ret.op = "step" /\ ret.exc = "none"

----------------------------------------------------------------------------
(* C1: deterministic grid builder. For every accepted width and height,    *)
(* every (state, action) row of the transition tensor sums to 1 and puts   *)
(* probability 1 on exactly one next state inside [0, state_count); this   *)
(* holds for the four actions, for terminal state 0 and for every          *)
(* non-terminal state.                                                     *)
C1_GridRowsOneHot ==
    variant = "grid" =>
        /\ DOMAIN td = States
        /\ \A s \in States :
            /\ DOMAIN td[s] = 0..(NUM_ACTIONS - 1)
            /\ \A a \in 0..(NUM_ACTIONS - 1) :
                /\ DOMAIN td[s][a] = States
                /\ RowSum(td[s][a]) = Scale
                /\ Cardinality({n \in States : td[s][a][n] > 0}) = 1
                /\ \E n \in States : td[s][a][n] = Scale

\* a grid with several rows and columns, after a step sampled one of its rows
C1_Witness ==
    /\ variant = "grid"
    /\ width = 3
    /\ num_states = 8
    /\ Stepped
    /\ td[ret.prev][ret.action][state] = Scale
    /\ RowSum(td[0][DOWN_ACTION]) = Scale

(* C2: cliff-walking builder. For every accepted geometry with in-range,   *)
(* pairwise distinct start, goal and cliff states, every (state, action)   *)
(* row of the transition tensor sums to 1.                                 *)
C2_CliffRowsSumToOne ==
    (variant = "cliff" /\ DistinctGeometry) =>
        \A s \in States : \A a \in 0..(NUM_ACTIONS - 1) : RowSum(td[s][a]) = Scale

(* C3: the terminal state is absorbing in every variant:                   *)
(* T[terminal, a, terminal] = 1 for every action a, terminal being state 0 *)
(* of the grid, goal_state of cliff-walking and state 1 of the toy model.  *)
C3_TerminalAbsorbing ==
    \A a \in Actions : td[TerminalOf][a][TerminalOf] = Scale

\* a cliff-walking episode that has just stepped onto the goal
C3_Witness ==
    /\ variant = "cliff"
    /\ DistinctGeometry
    /\ cliff_states # {}
    /\ Stepped
    /\ ret.done
    /\ state = goal_state
    /\ ret.prev # goal_state

C5_InvalidActionRejected ==
    [][ (ret'.op = "step" /\ ~ValidAction(ret'.action))
            => (ret'.exc = "InvalidAction" /\ ~ret'.caught /\ state' = state)
      ]_vars

\* an ended toy episode on which step(2) was refused as an invalid action
C5_Witness ==
    /\ variant = "toy"
    /\ ret.op = "step"
    /\ ret.action = 2
    /\ ret.exc = "InvalidAction"
    /\ ret.prev = 1
    /\ state = 1

(* C6: reset() always yields ACTIVE. On every engine a constructor returns *)
(* reset() returns normally and leaves the cursor on a non-terminal state: *)
(* a state of [1, state_count) for the grid, the fixed start state for     *)
(* cliff-walking and the toy model.                                        *)
C6_ResetYieldsActive ==
    ret.op = "reset" =>
        /\ ret.exc = "none"
        /\ state = ret.state
        /\ state \in States
        /\ state # TerminalOf
        /\ variant = "grid" => state \in 1..(num_states - 1)
        /\ variant = "cliff" => state = start_state
        /\ variant = "toy" => state = 0

(* C7: cliff-walking. A step() that moves the cursor from a non-cliff      *)
(* state into a cliff state returns reward -100 and done = False, and      *)
(* leaves the cursor on the start state.                                   *)
C7_CliffEntryPenalised ==
    (/\ variant = "cliff"
     /\ DistinctGeometry
     /\ Stepped
     /\ ~ret.caught
     /\ ret.prev \notin cliff_states
     /\ ret.state \in cliff_states)
        => (ret.reward = -100 /\ ~ret.done /\ state = start_state)

(* C8: cliff-walking. The reward step() returns depends only on the state  *)
(* the step starts from: -100 from a cliff state whatever the action and   *)
(* destination, -1 from a state that is neither cliff nor goal (the steps  *)
(* that enter the goal or a cliff state included); the goal rows of the    *)
(* reward tensor are 0.                                                    *)
C8_RewardBySourceState ==
    variant = "cliff" =>
        /\ \A a \in Actions : \A n \in States : r[goal_state][a][n] = 0
        /\ Stepped =>
            /\ ret.prev \in cliff_states => ret.reward = -100
            /\ ret.prev \notin cliff_states \cup {goal_state} => ret.reward = -1

\* a step that entered a cliff state from outside and was charged -1
C8_Witness ==
    /\ variant = "cliff"
    /\ DistinctGeometry
    /\ Stepped
    /\ ret.prev \notin cliff_states
    /\ state \in cliff_states
    /\ ret.reward = -1

(* C9: cliff-walking with goal_state not in cliff_states. Landing on a     *)
(* cliff state does not end the episode (done = False and the next step()  *)
(* is permitted), and from a cliff state each of the four actions moves    *)
(* the cursor to start_state with probability 1.                           *)
C9_CliffResetsToStart ==
    (variant = "cliff" /\ goal_state \notin cliff_states) =>
        /\ \A c \in cliff_states : \A a \in 0..(NUM_ACTIONS - 1) :
               OneHot(td[c][a], start_state)
        /\ (Stepped /\ ret.state \in cliff_states) =>
               /\ ~ret.done
               /\ state # goal_state
               /\ \A a \in 0..(NUM_ACTIONS - 1) : ~ChoiceFails(td[state][a])
        /\ (Stepped /\ ret.prev \in cliff_states) =>
               (state = start_state /\ ~ret.caught)

\* a step with an action other than RIGHT that left a cliff state for start
C9_Witness ==
    /\ variant = "cliff"
    /\ DistinctGeometry
    /\ Stepped
    /\ ret.prev \in cliff_states
    /\ ret.action = UP_ACTION
    /\ state = start_state

\* the single next state of the LEFT/UP/RIGHT/DOWN rules of the grid
GridRule(s, a, w, n) ==
    CASE a = LEFT_ACTION ->
            IF s = 1 THEN 0 ELSE IF s % w = 0 THEN s ELSE s - 1
      [] a = UP_ACTION ->
            IF s = w THEN 0 ELSE IF s < w THEN s ELSE s - w
      [] a = RIGHT_ACTION ->
            IF s + 1 = n THEN 0 ELSE IF (s + 1) % w = 0 THEN s ELSE s + 1
      [] a = DOWN_ACTION ->
            IF s + w = n THEN 0 ELSE IF n - s < w THEN s ELSE s + w

(* C10: deterministic grid. step(action) from a non-terminal cursor s      *)
(* returns (n, -1, n == 0, False, {}) with n the single next state of the  *)
(* LEFT/UP/RIGHT/DOWN rules, the step that enters the terminal state       *)
(* included. On the 2x2 grid step(LEFT) from 1 gives (0, -1, True); on the *)
(* 4x4 grid step(RIGHT) from 1 gives (2, -1, False).                       *)
C10_GridStepDeterministic ==
    (variant = "grid" /\ Stepped) =>
        /\ ret.prev \in 1..(num_states - 1)
        /\ ret.state = GridRule(ret.prev, ret.action, width, num_states)
        /\ state = ret.state
        /\ ret.reward = -1
        /\ ret.done = (ret.state = 0)
        /\ ~ret.truncated
        /\ (width = 2 /\ num_states = 3 /\ ret.prev = 1 /\ ret.action = LEFT_ACTION)
              => (ret.state = 0 /\ ret.reward = -1 /\ ret.done)
        /\ (width = 4 /\ num_states = 15 /\ ret.prev = 1 /\ ret.action = RIGHT_ACTION)
              => (ret.state = 2 /\ ret.reward = -1 /\ ~ret.done)

\* step(LEFT) from state 1 of the 2x2 grid, which enters the terminal state
C10_Witness ==
    /\ variant = "grid"
    /\ width = 2
    /\ num_states = 3
    /\ Stepped
    /\ ret.prev = 1
    /\ ret.action = LEFT_ACTION
    /\ state = 0
    /\ ret.done

(* C11: cliff-walking never suppresses a sampling failure. For every       *)
(* accepted geometry with pairwise distinct start, goal and cliff states   *)
(* and every cursor reached from reset() by valid steps, a step() that     *)
(* returns normally has moved the cursor to a state drawn from             *)
(* T[cursor, action, :]; it never returns after a swallowed sampling       *)
(* failure with the cursor left where it was.                              *)
C11_NoSuppressedSamplingFailure ==
    (variant = "cliff" /\ DistinctGeometry /\ Stepped) =>
        /\ ~ret.caught
        /\ td[ret.prev][ret.action][ret.state] > 0

(* C12: invalid geometry is rejected at construction. No cliff-walking     *)
(* engine exists whose start, goal or cliff states are out of range, whose *)
(* start equals its goal, or whose cliff set holds the goal or the start,  *)
(* and no engine has a non-positive state count.                           *)
C12_InvalidGeometryRejected ==
    /\ num_states > 0
    /\ variant = "cliff" => DistinctGeometry

\* the one successor a cliff-walking move has from a state that is neither
\* goal nor cliff
CliffRule(s, a, w, n, start) ==
    CASE a = LEFT_ACTION -> IF s % w = 0 THEN s ELSE s - 1
      [] a = UP_ACTION -> IF s < w THEN s ELSE s - w
      [] a = DOWN_ACTION -> IF s + w >= n THEN s ELSE s + w
      [] a = RIGHT_ACTION ->
            IF s = start THEN start ELSE IF (s + 1) % w = 0 THEN s ELSE s + 1

(* C13: cliff-walking movement. For every state s that is neither the goal *)
(* nor a cliff state, wherever it lies in the grid, each action has        *)
(* exactly one successor of probability 1: LEFT s-1 or s in the leftmost   *)
(* column, UP s-width or s in the top row, DOWN s+width or s in the bottom *)
(* row, RIGHT s+1 or s in the rightmost column, except that RIGHT from     *)
(* start_state stays at start_state.                                       *)
C13_CliffMovement ==
    (variant = "cliff" /\ DistinctGeometry) =>
        \A s \in States \ ({goal_state} \cup cliff_states) :
            \A a \in 0..(NUM_ACTIONS - 1) :
                OneHot(td[s][a], CliffRule(s, a, width, num_states, start_state))

(* C14: two-state toy model. After reset() the cursor is state 0; step(1)  *)
(* from state 0 always returns (1, 0, True); step(0) from state 0 returns  *)
(* (0, 0, False) or (1, 1, True) and both can happen; reward 1 is returned *)
(* only for the triple (state 0, action 0, next state 1).                  *)
C14_ToyModel ==
    variant = "toy" =>
        /\ ret.op = "reset" => (ret.exc = "none" /\ state = 0 /\ ret.state = 0)
        /\ (Stepped /\ ret.prev = 0 /\ ret.action = 1)
              => (ret.state = 1 /\ ret.reward = 0 /\ ret.done)
        /\ (Stepped /\ ret.prev = 0 /\ ret.action = 0)
              => \/ (ret.state = 0 /\ ret.reward = 0 /\ ~ret.done)
                 \/ (ret.state = 1 /\ ret.reward = 1 /\ ret.done)
        /\ (Stepped /\ ret.reward = 1)
              => (ret.prev = 0 /\ ret.action = 0 /\ ret.state = 1)
        /\ Stepped => (state = ret.state /\ ret.reward \in {0, 1})
        /\ state = 0 =>
              /\ ENABLED (ToyStep(0) /\ state' = 0)
              /\ ENABLED (ToyStep(0) /\ state' = 1)
              /\ ~ENABLED (ToyStep(1) /\ state' = 0)

\* step(0) from state 0 that landed on state 1 and paid reward 1
C14_Witness ==
    /\ variant = "toy"
    /\ Stepped
    /\ ret.prev = 0
    /\ ret.action = 0
    /\ state = 1
    /\ ret.reward = 1
    /\ ret.done

(* C15: model-exposing deterministic grid. The exposed tensors td and r    *)
(* are the dynamics step() follows: from a non-terminal cursor s and a     *)
(* valid action a, step(a) can return (n, reward, done) if and only if     *)
(* td[s, a, n] > 0, and then reward = r[s, a, n] and done = (n = 0), after *)
(* any sequence of reset() and step() calls.                               *)
C15_ExposedModelIsDynamics ==
    variant = "grid" =>
        /\ Stepped =>
              /\ Grid_td_property[ret.prev][ret.action][ret.state] > 0
              /\ ret.reward = Grid_r_property[ret.prev][ret.action][ret.state]
              /\ ret.done = (ret.state = 0)
        /\ state \in 1..(num_states - 1) =>
              \A a \in 0..(NUM_ACTIONS - 1) : \A n \in States :
                  (Grid_td_property[state][a][n] > 0)
                      <=> ENABLED (GridStep(a) /\ ret'.exc = "none" /\ state' = n)

\* a step of a 3x3 grid episode that moved down without ending the episode
C15_Witness ==
    /\ variant = "grid"
    /\ width = 3
    /\ num_states = 8
    /\ Stepped
    /\ ret.action = DOWN_ACTION
    /\ ret.state = ret.prev + 3
    /\ ~ret.done

(* C16: after construction, reset() and step(), whether they succeed or    *)
(* fail, leave the transition tensor, the reward tensor and the            *)
(* environment spec unchanged in every variant; they change the cursor     *)
(* only.                                                                   *)
C16_TensorsAndSpecFrozen ==
    [][ /\ td' = td
        /\ r' = r
        /\ env_spec' = env_spec
        /\ <<variant, width, num_states, start_state, goal_state,
             cliff_states, final_state>>'
             = <<variant, width, num_states, start_state, goal_state,
                 cliff_states, final_state>>
      ]_vars

\* a cliff-walking episode that reached the goal by steps and had a further
\* step refused, its tensors still those the constructor built
C16_Witness ==
    /\ variant = "cliff"
    /\ DistinctGeometry
    /\ ret.op = "step"
    /\ ret.exc = "EpisodeEnded"
    /\ state = goal_state
    /\ td = Cliff_build_trans_mat(width, num_states, start_state, goal_state,
                                  cliff_states)
    /\ r = Cliff_build_r_mat(num_states, goal_state, cliff_states)

\* the width x height picture of the grid: cells 0..width*height-1 numbered
\* row-major, the first and the last cell both being terminal state 0
GridHeight == (num_states + 1) \div width

CellState(c) == IF c = width * GridHeight - 1 THEN 0 ELSE c

\* the cell one step from cell s in direction a, or s when that leaves the grid
GeoNext(s, a) ==
    LET row == s \div width
        col == s % width
    IN  CASE a = LEFT_ACTION -> IF col = 0 THEN s ELSE CellState(s - 1)
          [] a = UP_ACTION -> IF row = 0 THEN s ELSE CellState(s - width)
          [] a = RIGHT_ACTION -> IF col = width - 1 THEN s ELSE CellState(s + 1)
          [] a = DOWN_ACTION ->
                IF row = GridHeight - 1 THEN s ELSE CellState(s + width)

(* C17: deterministic grid against its geometric picture. For every width  *)
(* >= 1 and height >= 1 with width*height >= 3, for every non-terminal     *)
(* state s and each of LEFT/UP/RIGHT/DOWN, the builder's successor is the  *)
(* cell one step in that direction, or s itself when that step would leave *)
(* the grid.                                                               *)
C17_GridMatchesPicture ==
    (variant = "grid" /\ width * GridHeight >= 3) =>
        \A s \in 1..(num_states - 1) : \A a \in 0..(NUM_ACTIONS - 1) :
            OneHot(td[s][a], GeoNext(s, a))

\* the goal and the cliff states have the largest indices of the grid
IndexOrdered ==
    /\ goal_state \notin cliff_states
    /\ \A t \in {goal_state} \cup cliff_states :
          \A o \in States \ ({goal_state} \cup cliff_states) : t > o

(* C18: cliff-walking builder under index-ordered geometry. If every index *)
(* of the goal and the cliff states is greater than the index of every     *)
(* other state and the goal is not a cliff state, every (state, action)    *)
(* row sums to 1 with a single in-range successor, and step() from any     *)
(* reachable cursor never hits a sampling failure.                         *)
C18_OrderedCliffRowsOneHot ==
    (variant = "cliff" /\ IndexOrdered) =>
        /\ \A s \in States : \A a \in 0..(NUM_ACTIONS - 1) :
              /\ RowSum(td[s][a]) = Scale
              /\ Cardinality({n \in States : td[s][a][n] > 0}) = 1
        /\ state \in States
        /\ ret.op = "step" => (~ret.caught /\ ret.exc # "ValueError")

\* the usual layout on a 3x2 grid (start 3, cliff 4, goal 5) after a step
\* that fell into the cliff from the row above
C18_Witness ==
    /\ variant = "cliff"
    /\ width = 3
    /\ num_states = 6
    /\ start_state = 3
    /\ cliff_states = {4}
    /\ goal_state = 5
    /\ Stepped
    /\ ret.prev = 1
    /\ ret.action = DOWN_ACTION
    /\ state = 4

\* the states from which some state of R is one step away
Pre(R) == {s \in States : \E a \in Actions : \E n \in R : td[s][a][n] > 0}

\* the states from which a state of R is at most k steps away
RECURSIVE CanReach(_, _)
CanReach(R, k) ==
    LET R2 == R \cup Pre(R)
    IN  IF k = 0 \/ R2 = R THEN R ELSE CanReach(R2, k - 1)

\* LEFT whenever the cursor is not in the leftmost column, UP otherwise
PolicyAction(s) == IF s % width # 0 THEN LEFT_ACTION ELSE UP_ACTION

\* the number of steps the policy takes from s to state 0, counting at most
\* k of them; num_states or more when it has not arrived by then
RECURSIVE PolicyDist(_, _)
PolicyDist(s, k) ==
    IF s = 0 THEN 0
    ELSE IF k = 0 THEN num_states
    ELSE 1 + PolicyDist(CHOOSE n \in States : td[s][PolicyAction(s)][n] > 0, k - 1)

(* C19: the deterministic grid has no traps. For every accepted width and  *)
(* height with a non-terminal state, terminal state 0 is reachable from    *)
(* every non-terminal state, and taking LEFT whenever the cursor is not in *)
(* the leftmost column and UP otherwise drives every episode to done=True: *)
(* each such step is permitted and brings the cursor one step closer.      *)
C19_GridHasNoTraps ==
    (variant = "grid" /\ num_states >= 2) =>
        /\ 1..(num_states - 1) \subseteq CanReach({0}, num_states)
        /\ \A s \in 1..(num_states - 1) : PolicyDist(s, num_states) < num_states
        /\ state \in 1..(num_states - 1) =>
              \E n \in States :
                  /\ ENABLED (/\ GridStep(PolicyAction(state))
                              /\ ret'.exc = "none"
                              /\ ret'.done = (n = 0)
                              /\ state' = n)
                  /\ PolicyDist(n, num_states) + 1 = PolicyDist(state, num_states)

\* the last step of an episode on the 4x4 grid that the policy drove home:
\* UP from state 4, below the terminal corner
C19_Witness ==
    /\ variant = "grid"
    /\ width = 4
    /\ num_states = 15
    /\ Stepped
    /\ ret.prev = 4
    /\ ret.action = PolicyAction(4)
    /\ state = 0
    /\ ret.done

====
